---- MODULE Spec2Model ----
(***************************************************************************)
(* Model of the ATR grid trading engine (grid_trading.py) and its entry    *)
(* point (main.py).                                                        *)
(*                                                                         *)
(* Units.  Prices are integers counted in units of the ladder rounding     *)
(* quantum (round(x, 8) in _generate_grid_prices, i.e. 1e-8); the float    *)
(* arithmetic of the builder is done exactly on rationals and rounded      *)
(* half-to-even like Python's round.  Time is counted in units of 300 s,   *)
(* so the 300 s window of _handle_filled_order is 1 unit.  Quantities are  *)
(* integers counted in an arbitrary base unit; stepSize and minQty are     *)
(* integers in that unit.                                                  *)
(***************************************************************************)
EXTENDS Integers, Sequences, FiniteSets, TLC

VARIABLES
    pc,                  \* position of the process: main / engine loop
    bot_bound,           \* main.py: the local `bot` has been assigned
    test_mode,           \* self.test_mode
    ignore_orders,       \* self.ignore_orders
    lower_price,         \* self.lower_price (config)
    upper_price,         \* self.upper_price (config)
    current_grid_prices, \* self.current_grid_prices (NoLadder = None)
    last_known_price,    \* self.last_known_price (NoPrice = None)
    profit_stats,        \* self.profit_stats
    last_rebalance_time, \* self.last_rebalance_time
    file,                \* states/grid_trading_state_<symbol>.json
    now,                 \* wall clock, datetime.now()
    open_orders,         \* orders still to visit in the for loop of the iteration
    current_price,       \* ticker read at the top of the iteration (line 366)
    calls,               \* gateway create/cancel calls issued by the last handler
    orders,              \* value returned by the last place_grid_orders
    hist,                \* history of the current engine instance
    grid_in,             \* arguments of the last stand-alone builder call
    grid_out,            \* result of the last stand-alone builder call
    main_in,             \* main.py: the command line and config.yaml
    adjust_io,           \* arguments and results of the last stand-alone _adjust_quantity calls
    df                   \* candles of the last stand-alone get_historical_data

vars == <<pc, bot_bound, test_mode, ignore_orders, lower_price, upper_price,
          current_grid_prices, last_known_price, profit_stats,
          last_rebalance_time, file, now, open_orders, current_price,
          calls, orders, hist, grid_in, grid_out, main_in, adjust_io, df>>

(***************************************************************************)
(* Bounds of the model                                                     *)
(***************************************************************************)
MaxTime == 3
MaxRuns == 2
MaxTrades == 1
MaxBad == 0
MaxOpen == 1

(***************************************************************************)
(* Values of the program                                                   *)
(***************************************************************************)
NoLadder == <<>>
NoPrice == 0
Investment == 60000
MinQty == 3
QtyStep == 2
TickSize == 10
RebalanceInterval == 2
NearRebalance == 1

\* ticker prices the exchange may report while the engine runs
Prices == {200}
\* ticker prices at start-up: also 30% below and exactly 5% above
StartTickers == Prices \cup {140, 210}
\* ATR values the estimator may return
Atrs == {0}
\* (lower_price, upper_price) of config.yaml for the engine
EngineBounds == {<<150, 350>>}
\* (lower_price, upper_price) for the stand-alone builder calls
GridBounds == {<<150, 350>>, <<100, 101>>, <<10, 30>>, <<40, 400>>}
GridPrices == 1..40 \cup {90, 100, 101, 110, 140, 250, 255, 360, 420}
GridAtrs == 0..3 \cup {5, 13, 20}

\* the float NaN, as the estimator returns it (an ATR is never negative)
NaN == -1
\* calculate_volatility: window=24
Window == 24

\* no candles
NoCandles == <<>>

\* no stand-alone call of _adjust_quantity has been made
NoAdjust == [quantity |-> <<0, 1>>, min_qty |-> <<0, 1>>, step_size |-> <<0, 1>>,
             once |-> 0, twice |-> 0]

\* main.py: a command-line option that is not given, a key that config.yaml
\* does not hold.  Python values are written as strings: "None", "True",
\* "False", numerals for numbers, any other string for itself.
Absent == "absent"
NoCli ==
    [api_key |-> Absent, api_secret |-> Absent, symbol |-> Absent,
     investment |-> Absent, test_mode |-> Absent, ignore_orders |-> Absent]
\* config = {} when config.yaml does not exist (main.py lines 12-13)
NoConfig ==
    [kind |-> "absent", api_key |-> Absent, api_secret |-> Absent,
     symbol |-> Absent, investment |-> Absent, test_mode |-> Absent,
     ignore_orders |-> Absent]
NoMainIn == [cli |-> NoCli, config |-> NoConfig]

Max(a, b) == IF a >= b THEN a ELSE b
Min(a, b) == IF a <= b THEN a ELSE b
Abs(a) == IF a >= 0 THEN a ELSE 0 - a

\* Python round(): n/d rounded to the nearest integer, ties to even (n >= 0, d > 0)
Round(n, d) ==
    LET q == n \div d
        r == n % d
    IN  IF 2 * r < d THEN q
        ELSE IF 2 * r > d THEN q + 1
        ELSE IF q % 2 = 0 THEN q ELSE q + 1

(***************************************************************************)
(* Grid builder                                                            *)
(***************************************************************************)
\* the tiers with a ratio on a threshold counted to the tier below it
NumGridsLe(current_price_, atr) ==
    IF atr # NaN /\ atr * 100 <= 2 * current_price_ THEN 20
    ELSE IF atr # NaN /\ atr * 100 <= 5 * current_price_ THEN 15
    ELSE 10

\* volatility_ratio = atr / current_price compared with 0.02 and 0.05
\* (every comparison with a NaN ratio is false)
NumGrids(current_price_, atr) ==
    IF atr # NaN /\ atr * 100 < 2 * current_price_ THEN 20
    ELSE IF atr # NaN /\ atr * 100 < 5 * current_price_ THEN 15
    ELSE 10

\* the ladder started at the center instead of half a range below it
GenerateGridPricesFromCenter(center_price, grid_range, num_grids, lower, upper) ==
    LET start2 == Max(2 * lower, 2 * center_price)
        end2 == Min(2 * upper, 2 * center_price + grid_range)
        actual_range2 == end2 - start2
    IN  [i \in 1..(num_grids + 1) |->
            Round(start2 * num_grids + (i - 1) * actual_range2, 2 * num_grids)]

\* _generate_grid_prices; grid_step = grid_range / num_grids, so
\* half_range = grid_range / 2.  All quantities are carried doubled.
GenerateGridPrices(center_price, grid_range, num_grids, lower, upper) ==
    LET start2 == Max(2 * lower, 2 * center_price - grid_range)
        end2 == Min(2 * upper, 2 * center_price + grid_range)
        actual_range2 == end2 - start2
    IN  [i \in 1..(num_grids + 1) |->
            Round(start2 * num_grids + (i - 1) * actual_range2, 2 * num_grids)]

\* get_average_position_price: the account dictionary is keyed by asset name
\* and never holds 'positionAmt', so the result is always None and the
\* position branch of generate_grid_parameters falls through.
GenerateGridParameters(current_price_, atr, lower, upper) ==
    LET num_grids == NumGrids(current_price_, atr)
        grid_range == upper - lower
        grid_center == Min(Max(current_price_, lower), upper)
    IN  GenerateGridPrices(grid_center, grid_range, num_grids, lower, upper)

(***************************************************************************)
(* Order placement                                                         *)
(***************************************************************************)
\* _adjust_quantity applied to the rational quantity qn / qd
\* with min_qty and step_size whole numbers, where the float arithmetic of
\* the function is exact (AdjustQuantityFloat below is the function on floats)
AdjustQuantity(qn, qd, min_qty, step_size) ==
    LET below == qn < min_qty * qd
        n1 == IF below THEN min_qty ELSE qn
        d1 == IF below THEN 1 ELSE qd
        floored == step_size * (n1 \div (d1 * step_size))
    IN  Max(min_qty, floored)

\* amount_per_grid / ((lower_price + upper_price) / 2), then _adjust_quantity
Quantity(lower, upper, num_grids) ==
    AdjustQuantity(2 * Investment, num_grids * (lower + upper), MinQty, QtyStep)

\* round(price, price_precision): the nearest multiple of the tick
AdjustedPrice(price) == Round(price, TickSize) * TickSize

\* one call of _place_order: the k-th call fails iff k is in bad
TryOrder(st, side, level, quantity, bad) ==
    LET k == st.k + 1
        ok == k \notin bad
    IN  [created |-> IF ok THEN st.created \cup {level} ELSE st.created,
         k |-> k,
         acc |-> Append(st.acc, [side |-> side, level |-> level,
                                 price |-> AdjustedPrice(level),
                                 quantity |-> quantity, ok |-> ok])]

\* the loop body with the ticker compared to the lower price of the pair
\* in its first test
PlaceStepOffByOne(grid_prices, c, i, st, bad) ==
    LET lower == grid_prices[i]
        upper == grid_prices[i + 1]
        quantity == Quantity(lower, upper, Len(grid_prices) - 1)
    IN  IF c > lower /\ upper \notin st.created
        THEN TryOrder(st, "BUY", upper, quantity, bad)
        ELSE IF c < lower /\ lower \notin st.created
        THEN TryOrder(st, "SELL", lower, quantity, bad)
        ELSE LET st1 == IF lower \notin st.created
                        THEN TryOrder(st, "BUY", lower, quantity, bad)
                        ELSE st
             IN  IF upper \notin st1.created
                 THEN TryOrder(st1, "SELL", upper, quantity, bad)
                 ELSE st1

\* body of the for loop of place_grid_orders for the pair (i, i + 1)
PlaceStep(grid_prices, c, i, st, bad) ==
    LET lower == grid_prices[i]
        upper == grid_prices[i + 1]
        quantity == Quantity(lower, upper, Len(grid_prices) - 1)
    IN  IF c > upper /\ upper \notin st.created
        THEN TryOrder(st, "BUY", upper, quantity, bad)
        ELSE IF c < lower /\ lower \notin st.created
        THEN TryOrder(st, "SELL", lower, quantity, bad)
        ELSE LET st1 == IF lower \notin st.created
                        THEN TryOrder(st, "BUY", lower, quantity, bad)
                        ELSE st
             IN  IF upper \notin st1.created
                 THEN TryOrder(st1, "SELL", upper, quantity, bad)
                 ELSE st1

\* the loop leaving at the first call of _place_order that fails
RECURSIVE PlaceFromAborting(_, _, _, _, _)
PlaceFromAborting(grid_prices, c, i, st, bad) ==
    IF i >= Len(grid_prices) \/ (st.acc # <<>> /\ ~st.acc[Len(st.acc)].ok) THEN st
    ELSE PlaceFromAborting(grid_prices, c, i + 1,
                           PlaceStep(grid_prices, c, i, st, bad), bad)

RECURSIVE PlaceFrom(_, _, _, _, _)
PlaceFrom(grid_prices, c, i, st, bad) ==
    IF i >= Len(grid_prices) THEN st
    ELSE PlaceFrom(grid_prices, c, i + 1, PlaceStep(grid_prices, c, i, st, bad), bad)

\* the calls of _place_order made by place_grid_orders, in order
PlaceAttempts(grid_prices, c, bad) ==
    PlaceFrom(grid_prices, c, 1, [created |-> {}, k |-> 0, acc |-> <<>>], bad).acc

(***************************************************************************)
(* State store                                                             *)
(***************************************************************************)
ZeroStats ==
    [total_profit |-> 0, total_trades |-> 0, buy_trades |-> 0,
     sell_trades |-> 0, grid_profits |-> <<>>]

\* datetime.isoformat / datetime.fromisoformat
IsoFormat(t) == [iso |-> t]
FromIsoFormat(s) == s.iso

NoDoc ==
    [profit_stats |-> ZeroStats, last_rebalance_time |-> IsoFormat(0),
     active_orders |-> <<>>, current_grid_prices |-> NoLadder,
     investment |-> Investment, last_known_price |-> NoPrice]

\* the state file: absent, a complete JSON document, or a truncated one
AbsentFile == [kind |-> "absent", doc |-> NoDoc]
TruncatedFile == [kind |-> "truncated", doc |-> NoDoc]
JsonFile(doc) == [kind |-> "json", doc |-> doc]

\* orders the exchange may report as open, as get_open_orders returns them
ExchangeOrders ==
    {[orderId |-> 1, side |-> "BUY", price |-> 190, qty |-> 12, commission |-> 0],
     [orderId |-> 2, side |-> "SELL", price |-> 210, qty |-> 12, commission |-> 2]}
OpenOrderLists ==
    {l \in {<<>>} \cup {<<o>> : o \in ExchangeOrders}
                  \cup {<<a, b>> : a, b \in ExchangeOrders} :
        /\ Len(l) <= MaxOpen
        /\ Len(l) = 2 => l[1].orderId < l[2].orderId}

\* get_active_orders: [] in test mode or when the gateway fails
ActiveOrders(listing) ==
    IF test_mode \/ listing.raised THEN <<>>
    ELSE [i \in 1..Len(listing.orders) |->
            [symbol |-> "SYM", side |-> listing.orders[i].side,
             price |-> listing.orders[i].price,
             quantity |-> listing.orders[i].qty,
             order_id |-> listing.orders[i].orderId]]

\* what get_open_orders may answer inside save_state
SaveListings ==
    IF test_mode THEN {[raised |-> TRUE, orders |-> <<>>]}
    ELSE {[raised |-> FALSE, orders |-> <<o>>] : o \in {x \in ExchangeOrders : x.orderId = 1}}

SaveOutcomes == {"ok", "dump_fails"}

\* save_state without its try/except: the I/O error reaches the caller
SaveStateRaising(ps, lrt, grid, lkp, listing, io) ==
    [file |-> IF io = "ok"
              THEN JsonFile([profit_stats |-> ps,
                             last_rebalance_time |-> IsoFormat(lrt),
                             active_orders |-> ActiveOrders(listing),
                             current_grid_prices |-> grid,
                             investment |-> Investment,
                             last_known_price |-> lkp])
              ELSE TruncatedFile,
     raised |-> io # "ok",
     save |-> IF io = "ok" THEN "ok" ELSE "failed"]

\* save_state: the document is built from the engine's fields and written;
\* an I/O error is caught and logged
SaveState(ps, lrt, grid, lkp, listing, io) ==
    [file |-> IF io = "ok"
              THEN JsonFile([profit_stats |-> ps,
                             last_rebalance_time |-> IsoFormat(lrt),
                             active_orders |-> ActiveOrders(listing),
                             current_grid_prices |-> grid,
                             investment |-> Investment,
                             last_known_price |-> lkp])
              ELSE TruncatedFile,
     raised |-> FALSE,
     save |-> IF io = "ok" THEN "ok" ELSE "failed"]

\* _restore_orders: its result; t is the ticker price, or NoPrice when the
\* ticker call raises
RestoreOrders(grid, lkp, t) ==
    IF t = NoPrice THEN "error"
    ELSE IF grid # NoLadder
    THEN IF lkp = NoPrice THEN "error"
         ELSE IF 100 * Abs(t - lkp) > 5 * lkp THEN "drift"
         ELSE "resume"
    ELSE "no_ladder"

\* load_state leaving the ladder and last-known price unset although the
\* file holds them
LoadStateForgetsLadder(t) ==
    [loaded |-> file.kind = "json" /\ ~ignore_orders,
     current_grid_prices |-> NoLadder,
     last_known_price |-> NoPrice,
     profit_stats |-> ZeroStats,
     last_rebalance_time |-> now,
     restored |-> "not_called"]

\* load_state: the fields it leaves in the engine
LoadState(t) ==
    IF file.kind # "absent" /\ ~ignore_orders
    THEN IF file.kind = "json"
         THEN [loaded |-> TRUE,
               current_grid_prices |-> file.doc.current_grid_prices,
               last_known_price |-> file.doc.last_known_price,
               profit_stats |-> file.doc.profit_stats,
               last_rebalance_time |-> FromIsoFormat(file.doc.last_rebalance_time),
               restored |-> IF test_mode THEN "not_called"
                            ELSE RestoreOrders(file.doc.current_grid_prices,
                                               file.doc.last_known_price, t)]
         ELSE [loaded |-> FALSE, current_grid_prices |-> NoLadder,
               last_known_price |-> NoPrice, profit_stats |-> ZeroStats,
               last_rebalance_time |-> now, restored |-> "not_called"]
    ELSE [loaded |-> FALSE, current_grid_prices |-> NoLadder,
          last_known_price |-> NoPrice, profit_stats |-> ZeroStats,
          last_rebalance_time |-> now, restored |-> "not_called"]

(***************************************************************************)
(* Building and placing a ladder                                           *)
(***************************************************************************)
\* the answers of the gateway and of the file system during one build:
\*   fail    "none", or the call that raises: "data" (candles, ticker or
\*           account before the builder runs), "place" (ticker or account at
\*           the top of place_grid_orders), "symbol_info" (line 212)
\*   atr, p_build   the estimator's value and the ticker read by the caller
\*   p_place        the ticker read by place_grid_orders
\*   enough         usdt_balance >= investment
\*   bad            the calls of _place_order that fail
\*   io, listing    the outcome of the write and of get_open_orders in save_state
Inp(f, a, pb, pp, e, b, io, l) ==
    [fail |-> f, atr |-> a, p_build |-> pb, p_place |-> pp, enough |-> e,
     bad |-> b, io |-> io, listing |-> l]

AnyPrice == CHOOSE p \in Prices : TRUE
AnyListing == [raised |-> TRUE, orders |-> <<>>]

BuildInputs(pbs) ==
    {Inp(f, 0, AnyPrice, AnyPrice, TRUE, {}, "ok", AnyListing) : f \in {"data", "place"}}
    \cup {Inp("none", 0, AnyPrice, AnyPrice, FALSE, {}, "ok", AnyListing)}
    \cup {Inp("symbol_info", a, pb, pp, TRUE, {}, "ok", AnyListing) :
            a \in Atrs, pb \in pbs, pp \in Prices}
    \cup {Inp("none", x[1], x[2], x[3], TRUE, x[4], x[5], x[6]) :
            x \in Atrs \X pbs \X Prices \X (SUBSET (1..MaxBad))
                  \X SaveOutcomes \X SaveListings}

OrderOf(a) ==
    [symbol |-> "SYM", side |-> a.side, type |-> "LIMIT", timeInForce |-> "GTC",
     quantity |-> a.quantity, price |-> a.price,
     status |-> IF test_mode THEN "TEST" ELSE "NEW"]

CreateCall(a) ==
    [op |-> "create_order", id |-> 0, side |-> a.side, level |-> a.level,
     price |-> a.price, quantity |-> a.quantity, ok |-> a.ok]

CancelCall(o, ok) ==
    [op |-> "cancel_order", id |-> o.orderId, side |-> o.side, level |-> o.price,
     price |-> o.price, quantity |-> o.qty, ok |-> ok]

IsOk(a) == a.ok

\* the outcome of a handler that changed nothing and raised / returned
NoChange(raised) ==
    [raised |-> raised, grid |-> current_grid_prices, lkp |-> last_known_price,
     orders |-> <<>>, calls |-> <<>>, file |-> file, save |-> "none",
     attempts |-> <<>>, entered |-> FALSE]

\* place_grid_orders keeping the ladder and the ticker (lines 203-204)
\* before it checks the balance
PlaceGridOrdersAssignsFirst(grid_prices, inp, ps) ==
    IF inp.fail = "place" THEN NoChange(TRUE)
    ELSE IF ~inp.enough
    THEN [NoChange(FALSE) EXCEPT !.grid = grid_prices, !.lkp = inp.p_place]
    ELSE IF inp.fail = "symbol_info"
    THEN [NoChange(TRUE) EXCEPT !.grid = grid_prices, !.lkp = inp.p_place]
    ELSE LET attempts == PlaceAttempts(grid_prices, inp.p_place, inp.bad)
             good == SelectSeq(attempts, IsOk)
             saved == SaveState(ps, last_rebalance_time, grid_prices,
                                inp.p_place, inp.listing, inp.io)
         IN  [raised |-> saved.raised,
              grid |-> grid_prices,
              lkp |-> inp.p_place,
              orders |-> [i \in 1..Len(good) |-> OrderOf(good[i])],
              calls |-> IF test_mode THEN <<>>
                        ELSE [i \in 1..Len(attempts) |-> CreateCall(attempts[i])],
              file |-> saved.file,
              save |-> saved.save,
              attempts |-> attempts,
              entered |-> TRUE]

\* place_grid_orders(grid_prices) with profit_stats = ps
PlaceGridOrders(grid_prices, inp, ps) ==
    IF inp.fail = "place" THEN NoChange(TRUE)
    ELSE IF ~inp.enough THEN NoChange(FALSE)
    ELSE IF inp.fail = "symbol_info"
    THEN [NoChange(TRUE) EXCEPT !.grid = grid_prices, !.lkp = inp.p_place]
    ELSE LET attempts == PlaceAttempts(grid_prices, inp.p_place, inp.bad)
             good == SelectSeq(attempts, IsOk)
             saved == SaveState(ps, last_rebalance_time, grid_prices,
                                inp.p_place, inp.listing, inp.io)
         IN  [raised |-> saved.raised,
              grid |-> grid_prices,
              lkp |-> inp.p_place,
              orders |-> [i \in 1..Len(good) |-> OrderOf(good[i])],
              calls |-> IF test_mode THEN <<>>
                        ELSE [i \in 1..Len(attempts) |-> CreateCall(attempts[i])],
              file |-> saved.file,
              save |-> saved.save,
              attempts |-> attempts,
              entered |-> TRUE]

\* candles, ATR, ticker and positions, then generate_grid_parameters and
\* place_grid_orders (lines 347-354, 418-425, 451-462)
BuildAndPlace(cp, inp, ps) ==
    IF inp.fail = "data" THEN NoChange(TRUE)
    ELSE PlaceGridOrders(
             GenerateGridParameters(cp, inp.atr, lower_price, upper_price), inp, ps)

(***************************************************************************)
(* Statistics                                                              *)
(***************************************************************************)
\* get_average_position_price: None (see generate_grid_parameters above)
AveragePositionPrice == NoPrice

\* update_trade_stats computing the profit for fills of either side
UpdateTradeStatsAnySide(ps, trade, acct_ok) ==
    LET ps1 == [ps EXCEPT !.total_trades = @ + 1,
                          !.buy_trades = IF trade.side = "BUY" THEN @ + 1 ELSE @,
                          !.sell_trades = IF trade.side = "BUY" THEN @ ELSE @ + 1]
        profit == 0 - trade.commission
    IN  IF acct_ok
        THEN [raised |-> FALSE,
              ps |-> [ps1 EXCEPT !.total_profit = @ + profit,
                                 !.grid_profits = Append(@, profit)]]
        ELSE [raised |-> TRUE, ps |-> ps1]

\* update_trade_stats(trade); acct_ok: the account query of
\* get_average_position_price (made for a SELL only) succeeds
UpdateTradeStats(ps, trade, acct_ok) ==
    LET ps1 == [ps EXCEPT !.total_trades = @ + 1,
                          !.buy_trades = IF trade.side = "BUY" THEN @ + 1 ELSE @,
                          !.sell_trades = IF trade.side = "BUY" THEN @ ELSE @ + 1]
        avg_cost == IF AveragePositionPrice # NoPrice
                    THEN AveragePositionPrice ELSE trade.price
        profit == (trade.price - avg_cost) * trade.qty - trade.commission
    IN  IF trade.side = "SELL"
        THEN IF acct_ok
             THEN [raised |-> FALSE,
                   ps |-> [ps1 EXCEPT !.total_profit = @ + profit,
                                      !.grid_profits = Append(@, profit)]]
             ELSE [raised |-> TRUE, ps |-> ps1]
        ELSE [raised |-> FALSE, ps |-> ps1]

(***************************************************************************)
(* The process                                                             *)
(***************************************************************************)
NoOrder == [orderId |-> 0, side |-> "NONE", price |-> NoPrice, qty |-> 0, commission |-> 0]

\* history of the current engine instance (the start-up fields file0, ladder0,
\* lkp0, ticker0 and restored are kept until the first event; attempts, ticker,
\* listed, fill and order until the iteration ends; save, rebalance and caught
\* until the next iteration starts):
\*   run        number of the process start
\*   file0      the state file held a complete document at construction
\*   ladder0, lkp0   its ladder and last-known price
\*   ticker0    ticker read by _restore_orders (NoPrice: not read, or raised)
\*   restored   result of _restore_orders
\*   built      the initial build of monitor_and_adjust ran the builder
\*   placed     _place_order has been called since construction
\*   event      a FILLED order or a due rebalance has been observed
\*   save       outcome of the last save_state
\*   attempts, ticker   calls of _place_order and ticker of the last place_grid_orders
\*   rebalance, listed  this iteration's rebalance and the orders its cancel pass listed
\*   fill, order        the last handling of a FILLED order, and that order
\*   caught     the loop's exception handler ran since the last iteration start
NewHist(run) ==
    [run |-> run, file0 |-> FALSE, ladder0 |-> NoLadder, lkp0 |-> NoPrice,
     ticker0 |-> NoPrice, restored |-> "not_called", built |-> FALSE,
     placed |-> FALSE, event |-> FALSE, save |-> "none", attempts |-> <<>>,
     ticker |-> NoPrice, rebalance |-> "none", listed |-> 0, fill |-> "none",
     order |-> NoOrder, caught |-> FALSE]

LoopPcs == {"top", "poll", "orders", "except"}

Init ==
    /\ pc = "main"
    /\ bot_bound = FALSE
    /\ test_mode \in BOOLEAN
    /\ ignore_orders \in BOOLEAN
    /\ \E b \in EngineBounds : lower_price = b[1] /\ upper_price = b[2]
    /\ current_grid_prices = NoLadder
    /\ last_known_price = NoPrice
    /\ profit_stats = ZeroStats
    /\ last_rebalance_time = 0
    /\ file = AbsentFile
    /\ now = 0
    /\ open_orders = <<>>
    /\ current_price = NoPrice
    /\ calls = <<>>
    /\ orders = <<>>
    /\ hist = NewHist(1)
    /\ grid_in = [current_price |-> NoPrice, atr |-> 0]
    /\ grid_out = NoLadder
    /\ main_in = NoMainIn
    /\ adjust_io = NoAdjust
    /\ df = NoCandles

\* what a finished build leaves in the engine, the file and the history
Apply(out, before) ==
    /\ current_grid_prices' = out.grid
    /\ last_known_price' = out.lkp
    /\ orders' = out.orders
    /\ calls' = before \o out.calls
    /\ file' = out.file

\* the first FILLED order or due rebalance ends the start-up history
Event(h) ==
    [h EXCEPT !.event = TRUE, !.file0 = FALSE, !.ladder0 = NoLadder,
              !.lkp0 = NoPrice, !.ticker0 = NoPrice, !.restored = "not_called"]

HistAfter(h, out) ==
    [h EXCEPT !.save = IF out.save = "none" THEN @ ELSE out.save,
              !.attempts = out.attempts,
              !.ticker = IF out.entered THEN out.lkp ELSE NoPrice,
              !.placed = @ \/ out.attempts # <<>>]

\* GridTrading.__init__: the fields load_state leaves, then lines 46-53
InitProfitStats(loaded_stats) == ZeroStats
InitRebalanceTime(loaded_time) == now

RestoreTickers ==
    IF test_mode \/ ignore_orders \/ file.kind # "json"
    THEN {NoPrice} ELSE StartTickers \cup {NoPrice}

\* main.py lines 42-51: bot = GridTrading(...)
Construct ==
    /\ pc = "main"
    /\ \/ /\ pc' = "main_except"
          /\ UNCHANGED <<bot_bound, current_grid_prices, last_known_price,
                         profit_stats, last_rebalance_time, hist, calls, orders>>
       \/ \E t \in RestoreTickers :
            \E ld \in {LoadState(t)} :
                /\ pc' = "monitor"
                /\ bot_bound' = TRUE
                /\ current_grid_prices' = ld.current_grid_prices
                /\ last_known_price' = ld.last_known_price
                /\ profit_stats' = InitProfitStats(ld.profit_stats)
                /\ last_rebalance_time' = InitRebalanceTime(ld.last_rebalance_time)
                /\ hist' = [NewHist(hist.run) EXCEPT
                               !.file0 = file.kind = "json",
                               !.ladder0 = file.doc.current_grid_prices,
                               !.lkp0 = file.doc.last_known_price,
                               !.ticker0 = t,
                               !.restored = ld.restored]
                /\ calls' = <<>>
                /\ orders' = <<>>
    /\ UNCHANGED <<test_mode, ignore_orders, lower_price, upper_price, file, now,
                   open_orders, current_price, grid_in, grid_out, main_in, adjust_io, df>>

\* monitor_and_adjust lines 343-355: the initial ladder
InitialBuild ==
    /\ pc = "monitor"
    /\ IF current_grid_prices # NoLadder
       THEN /\ pc' = "top"
            /\ calls' = <<>>
            /\ UNCHANGED <<current_grid_prices, last_known_price, orders, file, hist>>
       ELSE \E inp \in BuildInputs(Prices) :
                \E out \in {BuildAndPlace(inp.p_build, inp, profit_stats)} :
                    /\ Apply(out, <<>>)
                    /\ hist' = [HistAfter(hist, out) EXCEPT !.built = inp.fail # "data"]
                    /\ pc' = IF out.raised THEN "main_except" ELSE "top"
    /\ UNCHANGED <<bot_bound, test_mode, ignore_orders, lower_price, upper_price,
                   profit_stats, last_rebalance_time, now, open_orders,
                   current_price, grid_in, grid_out, main_in, adjust_io, df>>

\* main.py lines 56-59: the handler of the retry loop
MainExcept ==
    /\ pc = "main_except"
    /\ pc' = IF bot_bound THEN "main" ELSE "exited"
    /\ UNCHANGED <<bot_bound, test_mode, ignore_orders, lower_price, upper_price,
                   current_grid_prices, last_known_price, profit_stats,
                   last_rebalance_time, file, now, open_orders, current_price,
                   calls, orders, hist, grid_in, grid_out, main_in, adjust_io, df>>


(***************************************************************************)
(* The monitoring loop                                                     *)
(***************************************************************************)
\* the cancel pass of _rebalance_grids run in test mode too
CancelInputsAlways ==
    {[skipped |-> FALSE, raised |-> TRUE, list |-> <<>>, bad |-> {}]}
    \cup {[skipped |-> FALSE, raised |-> FALSE, list |-> l, bad |-> b] :
            l \in {x \in {<<a, b>> : a, b \in ExchangeOrders} :
                       x[1].orderId < x[2].orderId},
            b \in SUBSET {1}}

\* the answers of the gateway during the cancel pass of _rebalance_grids:
\* the listing raises, or returns orders of which those in bad fail to cancel
CancelInputs ==
    IF test_mode THEN {[skipped |-> TRUE, raised |-> FALSE, list |-> <<>>, bad |-> {}]}
    ELSE {[skipped |-> FALSE, raised |-> TRUE, list |-> <<>>, bad |-> {}]}
         \cup {[skipped |-> FALSE, raised |-> FALSE, list |-> l, bad |-> b] :
                 l \in {x \in {<<a, b>> : a, b \in ExchangeOrders} :
                            x[1].orderId < x[2].orderId},
                 b \in SUBSET {1}}

CancelCalls(ci) ==
    [i \in 1..Len(ci.list) |-> CancelCall(ci.list[i], i \notin ci.bad)]

\* _rebalance_grids with the cancel pass after the placement
RebalanceCallsPlaceFirst(cancels, placed) == placed \o cancels

\* _rebalance_grids: the cancel pass (lines 395-415) precedes the build (417-425)
RebalanceCalls(cancels, placed) == cancels \o placed

\* lines 361-362: last_rebalance_time = now once _rebalance_grids has returned
RebalanceTime(raised) == IF raised THEN last_rebalance_time ELSE now

\* line 360
RebalanceDue == now - last_rebalance_time > RebalanceInterval

\* lines 359-362: the rebalance check at the top of an iteration
Top ==
    /\ pc = "top"
    /\ IF RebalanceDue
       THEN \E ci \in CancelInputs, inp \in BuildInputs(Prices) :
                \E out \in {BuildAndPlace(inp.p_build, inp, profit_stats)} :
                    /\ current_grid_prices' = out.grid
                    /\ last_known_price' = out.lkp
                    /\ orders' = out.orders
                    /\ calls' = RebalanceCalls(CancelCalls(ci), out.calls)
                    /\ file' = out.file
                    /\ last_rebalance_time' = RebalanceTime(out.raised)
                    /\ hist' = [HistAfter(Event(hist), out) EXCEPT
                                   !.fill = "none",
                                   !.order = NoOrder,
                                   !.caught = FALSE,
                                   !.listed = Len(ci.list),
                                   !.rebalance = IF out.raised THEN "raised" ELSE "done"]
                    /\ pc' = IF out.raised THEN "except" ELSE "poll"
       ELSE /\ pc' = "poll"
            /\ calls' = <<>>
            /\ hist' = [hist EXCEPT !.rebalance = "none", !.fill = "none",
                                     !.order = NoOrder, !.save = "none",
                                     !.caught = FALSE, !.listed = 0]
            /\ UNCHANGED <<current_grid_prices, last_known_price, orders, file,
                           last_rebalance_time>>
    /\ UNCHANGED <<bot_bound, test_mode, ignore_orders, lower_price, upper_price,
                   profit_stats, now, open_orders, current_price, grid_in, grid_out, main_in, adjust_io, df>>

\* lines 365-366: get_open_orders and the ticker
Poll ==
    /\ pc = "poll"
    /\ \/ /\ pc' = "except"
          /\ UNCHANGED <<open_orders, current_price>>
       \/ \E l \in OpenOrderLists, p \in Prices :
            /\ open_orders' = l
            /\ current_price' = p
            /\ pc' = "orders"
    /\ UNCHANGED <<bot_bound, test_mode, ignore_orders, lower_price, upper_price,
                   current_grid_prices, last_known_price, profit_stats,
                   last_rebalance_time, file, now, calls, orders, hist,
                   grid_in, grid_out, main_in, adjust_io, df>>

\* the fill deferred only once the rebalance is overdue
NearRebalanceTimeOverdue == last_rebalance_time + RebalanceInterval - now < 0

\* line 446: time_to_rebalance.total_seconds() < 300
NearRebalanceTime == last_rebalance_time + RebalanceInterval - now < NearRebalance

\* the account queries of the two update_trade_stats calls that may raise
AcctFailures(o) == IF o.side = "SELL" THEN {0, 1, 2} ELSE {0}

\* lines 368-376 for one order of the listing: get_order, and for a FILLED
\* order update_trade_stats and _handle_filled_order (lines 428-468)
Visit ==
    /\ pc = "orders"
    /\ open_orders # <<>>
    /\ LET o == Head(open_orders)
       IN  \/ /\ pc' = "except"
              /\ UNCHANGED <<current_grid_prices, last_known_price, profit_stats,
                             file, calls, orders, hist, open_orders>>
           \/ /\ pc' = "orders"
              /\ open_orders' = Tail(open_orders)
              /\ UNCHANGED <<current_grid_prices, last_known_price, profit_stats,
                             file, calls, orders, hist>>
           \/ /\ profit_stats.total_trades < MaxTrades
              /\ \E af \in AcctFailures(o) :
                   \E u1 \in {UpdateTradeStats(profit_stats, o, af # 1)} :
                   \E u2 \in {UpdateTradeStats(u1.ps, o, af # 2)} :
                       IF u1.raised \/ u2.raised
                       THEN /\ profit_stats' = IF u1.raised THEN u1.ps ELSE u2.ps
                            /\ pc' = "except"
                            /\ hist' = [Event(hist) EXCEPT !.fill = "raised",
                                                            !.order = o]
                            /\ UNCHANGED <<current_grid_prices, last_known_price,
                                           file, calls, orders, open_orders>>
                       ELSE IF NearRebalanceTime
                       THEN /\ profit_stats' = u2.ps
                            /\ pc' = "orders"
                            /\ open_orders' = Tail(open_orders)
                            /\ hist' = [Event(hist) EXCEPT !.fill = "deferred",
                                                            !.order = o]
                            /\ UNCHANGED <<current_grid_prices, last_known_price,
                                           file, calls, orders>>
                       ELSE \E inp \in BuildInputs({current_price}) :
                              \E out \in {BuildAndPlace(current_price, inp, u2.ps)} :
                                  /\ profit_stats' = u2.ps
                                  /\ Apply(out, calls)
                                  /\ hist' = [HistAfter(Event(hist), out) EXCEPT
                                                 !.order = o,
                                                 !.fill = IF out.raised THEN "raised"
                                                          ELSE "handled"]
                                  /\ pc' = IF out.raised THEN "except" ELSE "orders"
                                  /\ open_orders' = IF out.raised THEN open_orders
                                                    ELSE Tail(open_orders)
    /\ UNCHANGED <<bot_bound, test_mode, ignore_orders, lower_price, upper_price,
                   last_rebalance_time, now, current_price, grid_in, grid_out, main_in, adjust_io, df>>

\* lines 378-383: the hourly save, then sleep(1)
\* the log of an iteration ends with the iteration
EndIteration(h) ==
    [h EXCEPT !.attempts = <<>>, !.ticker = NoPrice, !.fill = "none",
              !.order = NoOrder, !.listed = 0]

IterEnd ==
    /\ pc = "orders"
    /\ open_orders = <<>>
    /\ \/ /\ pc' = "top"
          /\ hist' = EndIteration(hist)
          /\ UNCHANGED file
       \/ \E io \in SaveOutcomes, l \in SaveListings :
            \E saved \in {SaveState(profit_stats, last_rebalance_time,
                                     current_grid_prices, last_known_price, l, io)} :
                /\ file' = saved.file
                /\ hist' = [EndIteration(hist) EXCEPT !.save = saved.save]
                /\ pc' = IF saved.raised THEN "except" ELSE "top"
    /\ calls' = <<>>
    /\ orders' = <<>>
    /\ UNCHANGED <<bot_bound, test_mode, ignore_orders, lower_price, upper_price,
                   current_grid_prices, last_known_price, profit_stats,
                   last_rebalance_time, now, open_orders, current_price,
                   grid_in, grid_out, main_in, adjust_io, df>>

\* lines 385-389: the handler of the loop: save_state, sleep(5)
Except ==
    /\ pc = "except"
    /\ \E io \in SaveOutcomes, l \in SaveListings :
         \E saved \in {SaveState(profit_stats, last_rebalance_time,
                                  current_grid_prices, last_known_price, l, io)} :
             /\ file' = saved.file
             /\ hist' = [EndIteration(hist) EXCEPT !.save = saved.save,
                                                   !.caught = TRUE]
             /\ pc' = IF saved.raised THEN "main_except" ELSE "top"
    /\ open_orders' = <<>>
    /\ calls' = <<>>
    /\ orders' = <<>>
    /\ UNCHANGED <<bot_bound, test_mode, ignore_orders, lower_price, upper_price,
                   current_grid_prices, last_known_price, profit_stats,
                   last_rebalance_time, now, current_price,
                   grid_in, grid_out, main_in, adjust_io, df>>

\* the wall clock advances (observed where the process sleeps or waits)
Tick ==
    /\ pc = "top"
    /\ now < MaxTime
    /\ now' = now + 1
    /\ UNCHANGED <<pc, bot_bound, test_mode, ignore_orders, lower_price, upper_price,
                   current_grid_prices, last_known_price, profit_stats,
                   last_rebalance_time, file, open_orders, current_price, calls,
                   orders, hist, grid_in, grid_out, main_in, adjust_io, df>>

\* the process is terminated from outside and started again (main.py line 7)
Restart ==
    /\ pc # "main"
    /\ hist.run < MaxRuns
    /\ pc' = "main"
    /\ bot_bound' = FALSE
    /\ current_grid_prices' = NoLadder
    /\ last_known_price' = NoPrice
    /\ profit_stats' = ZeroStats
    /\ last_rebalance_time' = 0
    /\ open_orders' = <<>>
    /\ current_price' = NoPrice
    /\ calls' = <<>>
    /\ orders' = <<>>
    /\ hist' = NewHist(hist.run + 1)
    /\ UNCHANGED <<test_mode, ignore_orders, lower_price, upper_price, file, now,
                   grid_in, grid_out, main_in, adjust_io, df>>

Next ==
    \/ Construct
    \/ InitialBuild
    \/ MainExcept
    \/ Top
    \/ Poll
    \/ Visit
    \/ IterEnd
    \/ Except
    \/ Tick
    \/ Restart

Spec == Init /\ [][Next]_vars

(***************************************************************************)
(* Stand-alone calls of place_grid_orders                                  *)
(***************************************************************************)
\* config bounds, builder inputs and tickers (multiples of the tick) that put
\* the ticker below, on, between and above the levels of the ladder
PlaceBounds == {<<150, 350>>, <<100, 140>>}
PlacePrices == {140, 240, 360}
PlaceAtrs == {0, 8, 20}
PlaceTickers == {90, 100, 120, 140, 150, 160, 200, 250, 340, 350, 360}
MaxPlaceBad == 2

PlaceInit ==
    /\ pc = "place"
    /\ bot_bound = TRUE
    /\ test_mode \in BOOLEAN
    /\ ignore_orders = FALSE
    /\ \E b \in PlaceBounds : lower_price = b[1] /\ upper_price = b[2]
    /\ current_grid_prices = NoLadder
    /\ last_known_price = NoPrice
    /\ profit_stats = ZeroStats
    /\ last_rebalance_time = 0
    /\ file = AbsentFile
    /\ now = 0
    /\ open_orders = <<>>
    /\ current_price = NoPrice
    /\ calls = <<>>
    /\ orders = <<>>
    /\ hist = NewHist(1)
    /\ grid_in = [current_price |-> NoPrice, atr |-> 0]
    /\ grid_out = NoLadder
    /\ main_in = NoMainIn
    /\ adjust_io = NoAdjust
    /\ df = NoCandles

PlaceInputs ==
    {Inp(f, 0, AnyPrice, c, TRUE, {}, "ok", AnyListing) :
        f \in {"place", "symbol_info"}, c \in PlaceTickers}
    \cup {Inp("none", 0, AnyPrice, c, FALSE, {}, "ok", AnyListing) : c \in PlaceTickers}
    \cup {Inp("none", 0, AnyPrice, x[1], TRUE, x[2], x[3], l) :
            x \in PlaceTickers \X (SUBSET (1..MaxPlaceBad)) \X SaveOutcomes,
            l \in SaveListings}

\* place_grid_orders(generate_grid_parameters(p, a)) on a constructed engine
PlaceCall ==
    /\ pc = "place"
    /\ \E p \in PlacePrices, a \in PlaceAtrs, inp \in PlaceInputs :
         \E grid \in {GenerateGridParameters(p, a, lower_price, upper_price)} :
         \E out \in {PlaceGridOrders(grid, inp, profit_stats)} :
            /\ Apply(out, <<>>)
            /\ hist' = HistAfter(hist, out)
            /\ grid_in' = [current_price |-> p, atr |-> a]
            /\ grid_out' = grid
    /\ pc' = "placed"
    /\ UNCHANGED <<bot_bound, test_mode, ignore_orders, lower_price,
                   upper_price, profit_stats, last_rebalance_time, now,
                   open_orders, current_price, main_in, adjust_io, df>>

PlaceNext == PlaceCall

PlaceSpec == PlaceInit /\ [][PlaceNext]_vars

(***************************************************************************)
(* Stand-alone calls of the grid builder                                   *)
(***************************************************************************)
GridInit ==
    /\ pc = "grid"
    /\ bot_bound = FALSE
    /\ test_mode = TRUE
    /\ ignore_orders = FALSE
    /\ \E b \in GridBounds : lower_price = b[1] /\ upper_price = b[2]
    /\ current_grid_prices = NoLadder
    /\ last_known_price = NoPrice
    /\ profit_stats = ZeroStats
    /\ last_rebalance_time = 0
    /\ file = AbsentFile
    /\ now = 0
    /\ open_orders = <<>>
    /\ current_price = NoPrice
    /\ calls = <<>>
    /\ orders = <<>>
    /\ hist = NewHist(1)
    /\ grid_in = [current_price |-> NoPrice, atr |-> 0]
    /\ grid_out = NoLadder
    /\ main_in = NoMainIn
    /\ adjust_io = NoAdjust
    /\ df = NoCandles

\* generate_grid_parameters(current_price, atr) on an engine with the
\* configured bounds
GridCall ==
    /\ pc = "grid"
    /\ \E p \in GridPrices, a \in GridAtrs :
         /\ grid_in' = [current_price |-> p, atr |-> a]
         /\ grid_out' = GenerateGridParameters(p, a, lower_price, upper_price)
    /\ pc' = "built"
    /\ UNCHANGED <<bot_bound, test_mode, ignore_orders, lower_price,
                   upper_price, current_grid_prices, last_known_price,
                   profit_stats, last_rebalance_time, file, now, open_orders,
                   current_price, calls, orders, hist, main_in, adjust_io, df>>

GridNext == GridCall

GridSpec == GridInit /\ [][GridNext]_vars

(***************************************************************************)
(* update_trade_stats on its own                                           *)
(***************************************************************************)
\* ProfitStats the engine can hold: <<sell_trades, grid_profits, total_profit>>
\* (every fill is counted by two calls, the second of which may raise)
StatsSells ==
    {<<0, <<>>, 0>>, <<1, <<>>, 0>>, <<2, <<>>, 0>>, <<2, <<0>>, 0>>,
     <<2, <<-2>>, -2>>, <<2, <<0, 0>>, 0>>, <<2, <<-2, -2>>, -4>>}

StatsStarts ==
    {[total_profit |-> x[3], total_trades |-> b + x[1], buy_trades |-> b,
      sell_trades |-> x[1], grid_profits |-> x[2]] :
        b \in {0, 2}, x \in StatsSells}

\* FILLED orders as get_order reports them
StatsTrades ==
    {[orderId |-> 1, side |-> sd, price |-> p, qty |-> 12, commission |-> c] :
        sd \in {"BUY", "SELL"}, p \in {190, 210}, c \in {0, 2}}

StatsInit ==
    /\ pc = "stats"
    /\ bot_bound = TRUE
    /\ test_mode = FALSE
    /\ ignore_orders = FALSE
    /\ \E b \in EngineBounds : lower_price = b[1] /\ upper_price = b[2]
    /\ current_grid_prices = NoLadder
    /\ last_known_price = NoPrice
    /\ profit_stats \in StatsStarts
    /\ last_rebalance_time = 0
    /\ file = AbsentFile
    /\ now = 0
    /\ \E t \in StatsTrades : open_orders = <<t>>
    /\ current_price = NoPrice
    /\ calls = <<>>
    /\ orders = <<>>
    /\ hist = NewHist(1)
    /\ grid_in = [current_price |-> NoPrice, atr |-> 0]
    /\ grid_out = NoLadder
    /\ main_in = NoMainIn
    /\ adjust_io = NoAdjust
    /\ df = NoCandles

\* update_trade_stats(trade); the account query of
\* get_average_position_price answers or raises
StatsCall ==
    /\ pc = "stats"
    /\ \E acct_ok \in BOOLEAN :
         \E u \in {UpdateTradeStats(profit_stats, Head(open_orders), acct_ok)} :
            /\ profit_stats' = u.ps
            /\ pc' = IF u.raised THEN "stats_raised" ELSE "stats_done"
    /\ UNCHANGED <<bot_bound, test_mode, ignore_orders, lower_price,
                   upper_price, current_grid_prices, last_known_price,
                   last_rebalance_time, file, now, open_orders, current_price,
                   calls, orders, hist, grid_in, grid_out, main_in, adjust_io, df>>

StatsNext == StatsCall

StatsSpec == StatsInit /\ [][StatsNext]_vars

(***************************************************************************)
(* The entry point (main.py lines 7-39), followed by the first             *)
(* construction of the engine                                              *)
(***************************************************************************)
\* truthiness of a Python value
Truthy(v) == v \notin {"None", "", "0", "False"}

\* argparse type=bool: bool() of the option's string
BoolOfStr(tok) == IF tok = "" THEN "False" ELSE "True"

\* bool() of a Python value
BoolOf(v) == IF Truthy(v) THEN "True" ELSE "False"

\* the defaults of the two flag options (lines 20-21)
TestModeDefault == "False"
IgnoreOrdersDefault == "0"

\* parser.parse_args(): an option that is not given takes its default
\* (None where add_argument names none)
ParseArgs(cli) ==
    [api_key |-> IF cli.api_key = Absent THEN "None" ELSE cli.api_key,
     api_secret |-> IF cli.api_secret = Absent THEN "None" ELSE cli.api_secret,
     symbol |-> IF cli.symbol = Absent THEN "None" ELSE cli.symbol,
     investment |-> IF cli.investment = Absent THEN "None" ELSE cli.investment,
     test_mode |-> IF cli.test_mode = Absent THEN TestModeDefault
                   ELSE BoolOfStr(cli.test_mode),
     ignore_orders |-> IF cli.ignore_orders = Absent THEN IgnoreOrdersDefault
                       ELSE cli.ignore_orders]

\* config.get(...).get(name) / config.get(name, default)
ConfigGet(config, name, default) ==
    IF config[name] = Absent THEN default ELSE config[name]

\* a or b
Or(a, b) == IF Truthy(a) THEN a ELSE b

\* lines 26-33
Params(args, config) ==
    [api_key |-> Or(args.api_key, ConfigGet(config, "api_key", "None")),
     api_secret |-> Or(args.api_secret, ConfigGet(config, "api_secret", "None")),
     symbol |-> Or(args.symbol, ConfigGet(config, "symbol", "None")),
     investment |-> Or(args.investment, ConfigGet(config, "investment", "None")),
     test_mode |-> IF args.test_mode # "None" THEN args.test_mode
                   ELSE ConfigGet(config, "test_mode", "False"),
     ignore_orders |-> BoolOf(IF args.ignore_orders # "None" THEN args.ignore_orders
                              ELSE ConfigGet(config, "ignore_orders", "0"))]

\* the required parameters without the investment
RequiredParamsNoInvestment == {"api_key", "api_secret", "symbol"}

\* line 36
RequiredParams == {"api_key", "api_secret", "symbol", "investment"}

\* line 37
MissingParams(params) == {param \in RequiredParams : ~Truthy(params[param])}

\* an empty config.yaml loads as None, and config.get raises as soon as an
\* option that is not given makes lines 27-30 evaluate it
ConfigGetRaises(args, config) ==
    /\ config.kind = "empty"
    /\ \E param \in {"api_key", "api_secret", "symbol", "investment"} :
          ~Truthy(args[param])

\* command lines: the options of the required parameters
RequiredClis ==
    {[NoCli EXCEPT !.api_key = k, !.api_secret = x, !.symbol = y, !.investment = i] :
        k \in {Absent, "", "key"}, x \in {Absent, "secret"},
        y \in {Absent, "SYM"}, i \in {Absent, "0", "60000"}}

\* command lines: all required parameters and the options of the two flags
FlagClis ==
    {[api_key |-> "key", api_secret |-> "secret", symbol |-> "SYM",
      investment |-> "60000", test_mode |-> t, ignore_orders |-> g] :
        t \in {Absent, "", "False", "True"}, g \in {Absent, "0", "1"}}

\* config.yaml: missing, empty, or a mapping
EmptyConfig == [NoConfig EXCEPT !.kind = "empty"]

RequiredConfigs ==
    {NoConfig, EmptyConfig}
    \cup {[NoConfig EXCEPT !.kind = "map", !.api_key = k, !.api_secret = x,
                           !.symbol = y, !.investment = i] :
            k \in {Absent, "key"}, x \in {Absent, "secret"},
            y \in {Absent, "SYM"}, i \in {Absent, "60000"}}

FlagConfigs ==
    {NoConfig, EmptyConfig}
    \cup {[NoConfig EXCEPT !.kind = "map", !.test_mode = t, !.ignore_orders = g] :
            t \in {Absent, "False", "True"}, g \in {Absent, "0", "1"}}

MainInputs ==
    {[cli |-> c, config |-> f] : c \in RequiredClis, f \in RequiredConfigs}
    \cup {[cli |-> c, config |-> f] : c \in FlagClis, f \in FlagConfigs}

MainInit ==
    /\ pc = "start"
    /\ bot_bound = FALSE
    /\ test_mode = FALSE
    /\ ignore_orders = FALSE
    /\ \E b \in EngineBounds : lower_price = b[1] /\ upper_price = b[2]
    /\ current_grid_prices = NoLadder
    /\ last_known_price = NoPrice
    /\ profit_stats = ZeroStats
    /\ last_rebalance_time = 0
    /\ file = AbsentFile
    /\ now = 0
    /\ open_orders = <<>>
    /\ current_price = NoPrice
    /\ calls = <<>>
    /\ orders = <<>>
    /\ hist = NewHist(1)
    /\ grid_in = [current_price |-> NoPrice, atr |-> 0]
    /\ grid_out = NoLadder
    /\ main_in \in MainInputs
    /\ adjust_io = NoAdjust
    /\ df = NoCandles

\* main.py lines 9-39: the configuration, the command line, the parameters
\* and their validation; test_mode and ignore_orders are the arguments the
\* retry loop passes to GridTrading
MainStart ==
    /\ pc = "start"
    /\ \E args \in {ParseArgs(main_in.cli)} :
         IF ConfigGetRaises(args, main_in.config)
         THEN /\ pc' = "fatal_config"
              /\ UNCHANGED <<test_mode, ignore_orders>>
         ELSE \E params \in {Params(args, main_in.config)} :
                IF MissingParams(params) # {}
                THEN /\ pc' = "fatal"
                     /\ UNCHANGED <<test_mode, ignore_orders>>
                ELSE /\ pc' = "main"
                     /\ test_mode' = Truthy(params.test_mode)
                     /\ ignore_orders' = Truthy(params.ignore_orders)
    /\ UNCHANGED <<bot_bound, lower_price, upper_price, current_grid_prices,
                   last_known_price, profit_stats, last_rebalance_time, file,
                   now, open_orders, current_price, calls, orders, hist,
                   grid_in, grid_out, main_in, adjust_io, df>>

MainNext ==
    \/ MainStart
    \/ Construct
    \/ MainExcept

MainSpec == MainInit /\ [][MainNext]_vars

(***************************************************************************)
(* Start-up on a state file that the engine finds, whoever wrote it        *)
(***************************************************************************)
\* documents of the state file: without ladder (saved before a ladder
\* existed), with a ladder and its last-known price, and with a ladder but
\* a null last_known_price
LoadDocs ==
    {[NoDoc EXCEPT !.current_grid_prices = x[1], !.last_known_price = x[2]] :
        x \in {<<NoLadder, NoPrice>>} \cup
              {<<GenerateGridParameters(p, 0, b[1], b[2]), l>> :
                  p \in Prices, b \in EngineBounds, l \in Prices \cup {NoPrice}}}

LoadFiles == {AbsentFile, TruncatedFile} \cup {JsonFile(d) : d \in LoadDocs}

LoadInit ==
    /\ pc = "main"
    /\ bot_bound = FALSE
    /\ test_mode \in BOOLEAN
    /\ ignore_orders \in BOOLEAN
    /\ \E b \in EngineBounds : lower_price = b[1] /\ upper_price = b[2]
    /\ current_grid_prices = NoLadder
    /\ last_known_price = NoPrice
    /\ profit_stats = ZeroStats
    /\ last_rebalance_time = 0
    /\ file \in LoadFiles
    /\ now = 0
    /\ open_orders = <<>>
    /\ current_price = NoPrice
    /\ calls = <<>>
    /\ orders = <<>>
    /\ hist = NewHist(1)
    /\ grid_in = [current_price |-> NoPrice, atr |-> 0]
    /\ grid_out = NoLadder
    /\ main_in = NoMainIn
    /\ adjust_io = NoAdjust
    /\ df = NoCandles

\* the retry loop of main up to the first iteration of the monitoring loop
LoadNext ==
    \/ Construct
    \/ InitialBuild
    \/ MainExcept

LoadSpec == LoadInit /\ [][LoadNext]_vars

(***************************************************************************)
(* _adjust_quantity on its own, in floating point                          *)
(*                                                                         *)
(* A decimal number is a pair <<n, d>> (n / d).  A float is a binary       *)
(* floating-point number, rounded to nearest with ties to even, written    *)
(* as its count of units of 2^-FracBits.  The significand carries          *)
(* SignificandBits bits where CPython carries 53; both are 1 modulo 4, so  *)
(* the tenths k/10, whose binary expansions have period 4, are rounded in  *)
(* the same direction as in CPython.                                       *)
(***************************************************************************)
SignificandBits == 13
FracBits == 18
\* the largest quantity of the calls is below 2^MaxExponent
MaxExponent == 4

\* float(n / d): the nearest float
Fl(n, d) ==
    IF n = 0 THEN 0
    ELSE LET s == CHOOSE x \in (SignificandBits - 1)..(FracBits + MaxExponent) :
                     /\ d * 2^x <= n * 2^FracBits
                     /\ \A y \in (x + 1)..(FracBits + MaxExponent) :
                            d * 2^y > n * 2^FracBits
             ulp == 2^(s - SignificandBits + 1)
         IN  Round(n * 2^FracBits, d * ulp) * ulp

\* the nearest float of a whole number x of units of 2^-FracBits (the
\* rounding of the result of a float operation)
FlUnits(x) ==
    IF x < 2^SignificandBits THEN x
    ELSE LET s == CHOOSE y \in SignificandBits..(FracBits + MaxExponent) :
                     2^y <= x /\ x < 2^(y + 1)
             ulp == 2^(s - SignificandBits + 1)
         IN  Round(x, ulp) * ulp

\* len(str(float(step_size)).split('.')[-1]) for a step with at most two
\* decimals: '2.0' and '0.1' have one digit after the point, '0.25' two
StepSizeDecimal(step) == IF (10 * step[1]) % step[2] = 0 THEN 1 ELSE 2

\* round(x, ndigits) of a float: the nearest decimal with ndigits digits
\* (ties to even), then the nearest float
PyRound(x, ndigits) == Fl(Round(x * 10^ndigits, 2^FracBits), 10^ndigits)

\* _adjust_quantity(quantity, min_qty, step_size) on floats; step is the
\* decimal that float(step_size) converts
AdjustQuantityFloat(quantity, min_qty, step) ==
    LET q1 == Max(min_qty, quantity)
        step_size_decimal == StepSizeDecimal(step)
        step_size == Fl(step[1], step[2])
        q2 == PyRound(FlUnits(q1 - (q1 % step_size)), step_size_decimal)
    IN  Max(min_qty, q2)

\* quantities, and (minQty, stepSize) of the LOT_SIZE filter
AdjustQuantities == {<<k, 20>> : k \in 1..100}

AdjustFilters ==
    {<<<<1, 10>>, <<1, 10>>>>, <<<<3, 1>>, <<2, 1>>>>, <<<<1, 1>>, <<1, 1>>>>,
     <<<<1, 2>>, <<1, 2>>>>, <<<<1, 4>>, <<1, 4>>>>}

AdjustInit ==
    /\ pc = "adjust"
    /\ bot_bound = TRUE
    /\ test_mode = FALSE
    /\ ignore_orders = FALSE
    /\ \E b \in EngineBounds : lower_price = b[1] /\ upper_price = b[2]
    /\ current_grid_prices = NoLadder
    /\ last_known_price = NoPrice
    /\ profit_stats = ZeroStats
    /\ last_rebalance_time = 0
    /\ file = AbsentFile
    /\ now = 0
    /\ open_orders = <<>>
    /\ current_price = NoPrice
    /\ calls = <<>>
    /\ orders = <<>>
    /\ hist = NewHist(1)
    /\ grid_in = [current_price |-> NoPrice, atr |-> 0]
    /\ grid_out = NoLadder
    /\ main_in = NoMainIn
    /\ \E q \in AdjustQuantities, f \in AdjustFilters :
          adjust_io = [NoAdjust EXCEPT !.quantity = q, !.min_qty = f[1],
                                       !.step_size = f[2]]
    /\ df = NoCandles

\* _adjust_quantity(quantity, min_qty, step_size)
AdjustCall ==
    /\ pc = "adjust"
    /\ adjust_io' = [adjust_io EXCEPT !.once =
           AdjustQuantityFloat(Fl(adjust_io.quantity[1], adjust_io.quantity[2]),
                               Fl(adjust_io.min_qty[1], adjust_io.min_qty[2]),
                               adjust_io.step_size)]
    /\ pc' = "adjusted"
    /\ UNCHANGED <<bot_bound, test_mode, ignore_orders, lower_price,
                   upper_price, current_grid_prices, last_known_price,
                   profit_stats, last_rebalance_time, file, now, open_orders,
                   current_price, calls, orders, hist, grid_in, grid_out,
                   main_in, df>>

\* _adjust_quantity applied to its own result
AdjustAgain ==
    /\ pc = "adjusted"
    /\ adjust_io' = [adjust_io EXCEPT !.twice =
           AdjustQuantityFloat(adjust_io.once,
                               Fl(adjust_io.min_qty[1], adjust_io.min_qty[2]),
                               adjust_io.step_size)]
    /\ pc' = "readjusted"
    /\ UNCHANGED <<bot_bound, test_mode, ignore_orders, lower_price,
                   upper_price, current_grid_prices, last_known_price,
                   profit_stats, last_rebalance_time, file, now, open_orders,
                   current_price, calls, orders, hist, grid_in, grid_out,
                   main_in, df>>

AdjustNext ==
    \/ AdjustCall
    \/ AdjustAgain

AdjustSpec == AdjustInit /\ [][AdjustNext]_vars

(***************************************************************************)
(* The volatility estimator and the initial build on given candles         *)
(***************************************************************************)
\* the true range of row i: the largest of high - low, |high - close.shift(1)|
\* and |low - close.shift(1)|; max(axis=1) skips the NaN of the first row
TrueRange(candles, i) ==
    LET tr1 == candles[i].high - candles[i].low
    IN  IF i = 1 THEN tr1
        ELSE Max(tr1, Max(Abs(candles[i].high - candles[i - 1].close),
                          Abs(candles[i].low - candles[i - 1].close)))

RECURSIVE SumTrueRange(_, _, _)
SumTrueRange(candles, from, to) ==
    IF from > to THEN 0
    ELSE TrueRange(candles, from) + SumTrueRange(candles, from + 1, to)

\* calculate_volatility: the last value of the rolling mean of the true
\* range.  iloc[-1] raises IndexError on an empty frame; the mean is NaN
\* while the frame has fewer than window rows.
CalculateVolatility(candles) ==
    IF candles = <<>> THEN [raised |-> TRUE, atr |-> NaN]
    ELSE IF Len(candles) < Window THEN [raised |-> FALSE, atr |-> NaN]
    ELSE [raised |-> FALSE,
          atr |-> SumTrueRange(candles, Len(candles) - Window + 1, Len(candles))
                    \div Window]

\* hourly candles around the ticker, each with the same range (so that the
\* mean is a whole number), from none to one more than window + 1
CandleSeries ==
    {[i \in 1..n |-> [high |-> p + h, low |-> p, close |-> p]] :
        n \in 0..(Window + 2), h \in {0, 2, 5}, p \in Prices}

EstimateInit ==
    /\ pc = "monitor"
    /\ bot_bound = TRUE
    /\ test_mode \in BOOLEAN
    /\ ignore_orders = FALSE
    /\ \E b \in EngineBounds : lower_price = b[1] /\ upper_price = b[2]
    /\ current_grid_prices = NoLadder
    /\ last_known_price = NoPrice
    /\ profit_stats = ZeroStats
    /\ last_rebalance_time = 0
    /\ file = AbsentFile
    /\ now = 0
    /\ open_orders = <<>>
    /\ current_price = NoPrice
    /\ calls = <<>>
    /\ orders = <<>>
    /\ hist = NewHist(1)
    /\ grid_in = [current_price |-> NoPrice, atr |-> 0]
    /\ grid_out = NoLadder
    /\ main_in = NoMainIn
    /\ adjust_io = NoAdjust
    /\ df \in CandleSeries

\* monitor_and_adjust lines 343-355 on the candles of df: the estimator,
\* then the builder and the placement
EstimateBuild ==
    /\ pc = "monitor"
    /\ \E vol \in {CalculateVolatility(df)} :
         IF vol.raised
         THEN /\ pc' = "main_except"
              /\ UNCHANGED <<current_grid_prices, last_known_price, orders,
                             calls, file, hist>>
         ELSE \E inp \in BuildInputs(Prices) :
                \E out \in {BuildAndPlace(inp.p_build,
                                           [inp EXCEPT !.atr = vol.atr],
                                           profit_stats)} :
                    /\ Apply(out, <<>>)
                    /\ hist' = [HistAfter(hist, out) EXCEPT
                                   !.built = inp.fail # "data"]
                    /\ pc' = IF out.raised THEN "main_except" ELSE "top"
    /\ UNCHANGED <<bot_bound, test_mode, ignore_orders, lower_price, upper_price,
                   profit_stats, last_rebalance_time, now, open_orders,
                   current_price, grid_in, grid_out, main_in, adjust_io, df>>

EstimateNext == EstimateBuild

EstimateSpec == EstimateInit /\ [][EstimateNext]_vars

(***************************************************************************)
(* Claims                                                                  *)
(***************************************************************************)
Constructed == pc \in {"monitor"} \cup LoopPcs

IsCreate(c) == c.op = "create_order"
IsCancel(c) == c.op = "cancel_order"

\* the state file held a ladder when this engine was constructed, and the
\* engine was asked to use it
PersistedLadder ==
    hist.file0 /\ ~ignore_orders /\ hist.ladder0 # NoLadder

\* |ticker - last_known_price| / last_known_price > 5% at start-up
StartDriftLarge ==
    /\ hist.ticker0 # NoPrice
    /\ 100 * Abs(hist.ticker0 - hist.lkp0) > 5 * hist.lkp0

StartDriftSmall ==
    /\ hist.ticker0 # NoPrice
    /\ 100 * Abs(hist.ticker0 - hist.lkp0) <= 5 * hist.lkp0

\* C1: an engine constructed over a persisted ladder, with the ignore flag off
\* and a start-up drift of at most 5% (in test mode the ticker is not read and
\* any drift is covered), reaches the monitoring loop with the persisted
\* ladder and, until the first FILLED order or due rebalance, has run no
\* builder, called _place_order never and issued no create_order call.
C1_ResumeNoOrders ==
    (PersistedLadder /\ (test_mode \/ StartDriftSmall) /\ ~hist.event)
        => /\ Constructed
           /\ current_grid_prices = hist.ladder0
           /\ ~hist.built
           /\ ~hist.placed
           /\ \A i \in DOMAIN calls : ~IsCreate(calls[i])

\* witness of C1: resumed at exactly 5% drift and polling, before any event
C1_Witness ==
    /\ pc = "poll"
    /\ PersistedLadder
    /\ ~test_mode
    /\ hist.lkp0 = 200
    /\ hist.ticker0 = 210
    /\ ~hist.event
    /\ hist.restored = "resume"

\* C2: an engine constructed over a persisted ladder with a start-up drift
\* above 5% has built a new ladder and placed its orders by the time it is
\* in the monitoring loop.
C2_DriftRebuilds ==
    (PersistedLadder /\ StartDriftLarge /\ pc \in LoopPcs /\ ~hist.event)
        => (hist.built /\ hist.placed)

\* C3: a freshly constructed engine that loaded the state file holds the
\* file's ladder, last-known price, rebalance timestamp and ProfitStats.
C3_RoundTrip ==
    (pc = "monitor" /\ hist.file0 /\ ~ignore_orders)
        => /\ current_grid_prices = file.doc.current_grid_prices
           /\ last_known_price = file.doc.last_known_price
           /\ last_rebalance_time = FromIsoFormat(file.doc.last_rebalance_time)
           /\ profit_stats = file.doc.profit_stats

Opposite(side) == IF side = "BUY" THEN "SELL" ELSE "BUY"

\* C4: a FILLED order handled outside the pre-rebalance window, with the
\* balance sufficient, leads to exactly one call of _place_order, on the
\* opposite side, at the fill price offset by 1% (above for a filled BUY,
\* below for a filled SELL).
C4_SingleCompensatingOrder ==
    (hist.fill = "handled" /\ hist.ticker # NoPrice)
        => /\ Len(hist.attempts) = 1
           /\ hist.attempts[1].side = Opposite(hist.order.side)
           /\ 100 * hist.attempts[1].level =
                 (IF hist.order.side = "BUY" THEN 101 ELSE 99) * hist.order.price

CancelsBeforeCreates(cs) ==
    \A j \in DOMAIN cs : IsCancel(cs[j]) => \A i \in 1..(j - 1) : ~IsCreate(cs[i])

NumCancels(cs) == Cardinality({i \in DOMAIN cs : IsCancel(cs[i])})

\* a step that runs the rebalance check of an iteration
TopStep == pc = "top" /\ pc' \in {"poll", "except"}

\* C5 as amended: the rebalance runs at the top of an iteration exactly when
\* now - last_rebalance_time exceeds the interval; it issues one cancel call
\* per listed order (none in test mode or when the listing fails) whatever the
\* outcome of the earlier cancels, and every cancel call of the iteration
\* precedes every create_order call; if the build and placement return,
\* last_rebalance_time is now and the rebalance is no longer due; if they
\* raise, last_rebalance_time is unchanged and the handler of the loop runs.
C5_Rebalance ==
    [][/\ CancelsBeforeCreates(calls')
       /\ TopStep =>
            /\ (now - last_rebalance_time > RebalanceInterval)
                   <=> (hist'.rebalance # "none")
            /\ hist'.rebalance # "none" => NumCancels(calls') = hist'.listed
            /\ hist'.rebalance = "done" =>
                   /\ last_rebalance_time' = now
                   /\ ~(now' - last_rebalance_time' > RebalanceInterval)
                   /\ pc' = "poll"
            /\ hist'.rebalance = "raised" =>
                   /\ last_rebalance_time' = last_rebalance_time
                   /\ pc' = "except"
            /\ hist'.rebalance = "none" =>
                   /\ calls' = <<>>
                   /\ UNCHANGED <<last_rebalance_time, current_grid_prices, file>>]_vars

\* witness of C5: a finished rebalance whose first cancel failed, whose second
\* cancel was still issued, and whose orders were created after both
C5_Witness ==
    /\ pc = "poll"
    /\ hist.rebalance = "done"
    /\ last_rebalance_time = now
    /\ Len(calls) > 2
    /\ IsCancel(calls[1]) /\ ~calls[1].ok
    /\ IsCancel(calls[2]) /\ calls[2].ok
    /\ IsCreate(calls[3])

\* C5 as stated: every iteration that finds the rebalance due ends the
\* rebalance with a placed ladder and last_rebalance_time reset.
C5_EveryDueRebalanceCompletes ==
    [][(TopStep /\ now - last_rebalance_time > RebalanceInterval)
          => /\ last_rebalance_time' = now
             /\ hist'.ticker # NoPrice
             /\ pc' = "poll"]_vars

\* C6: every call of _place_order made by place_grid_orders with ticker c is
\* a BUY at a ladder price <= c or a SELL at a ladder price >= c, and the
\* price submitted after tick rounding is on the same side of c.
C6_SideRule ==
    \A i \in DOMAIN hist.attempts :
        LET a == hist.attempts[i]
        IN  /\ a.side \in {"BUY", "SELL"}
            /\ a.side = "BUY" => (a.level <= hist.ticker /\ a.price <= hist.ticker)
            /\ a.side = "SELL" => (a.level >= hist.ticker /\ a.price >= hist.ticker)

\* witness of C6: a placement with the ticker on a ladder level, buys below
\* and sells above
C6_Witness ==
    /\ pc = "placed"
    /\ \E i \in DOMAIN current_grid_prices : current_grid_prices[i] = hist.ticker
    /\ \E i \in DOMAIN hist.attempts :
         hist.attempts[i].side = "BUY" /\ hist.attempts[i].level < hist.ticker
    /\ \E i \in DOMAIN hist.attempts :
         hist.attempts[i].side = "SELL" /\ hist.attempts[i].level > hist.ticker

\* C7: after place_grid_orders ran its loop with every call of _place_order
\* succeeding, every level of the ladder has an order placed at it.
C7_Coverage ==
    (pc = "placed" /\ hist.ticker # NoPrice
        /\ \A i \in DOMAIN hist.attempts : hist.attempts[i].ok)
        => \A k \in DOMAIN current_grid_prices :
              \E i \in DOMAIN hist.attempts :
                 hist.attempts[i].level = current_grid_prices[k]

\* the level count the volatility tiers prescribe
TierLevels(p, a) ==
    IF 100 * a < 2 * p THEN 20 ELSE IF 100 * a < 5 * p THEN 15 ELSE 10

\* C8: the ladder returned by generate_grid_parameters is strictly
\* increasing, lies within [lower_price, upper_price] and has levelCount + 1
\* prices.
C8_LadderShape ==
    pc = "built"
        => /\ Len(grid_out) = TierLevels(grid_in.current_price, grid_in.atr) + 1
           /\ \A i \in 1..(Len(grid_out) - 1) : grid_out[i] < grid_out[i + 1]
           /\ \A i \in DOMAIN grid_out :
                 lower_price <= grid_out[i] /\ grid_out[i] <= upper_price

\* C9: with ratio = atr / currentPrice the ladder has 20 levels iff
\* ratio < 0.02, 15 iff 0.02 <= ratio < 0.05 and 10 iff ratio >= 0.05; the
\* ratio 5 / 250 = 0.02 selects 15 and a ratio of exactly 0.05 selects 10.
C9_TierSelection ==
    pc = "built"
        => LET p == grid_in.current_price
               a == grid_in.atr
               n == Len(grid_out) - 1
           IN  /\ n = 20 <=> 100 * a < 2 * p
               /\ n = 15 <=> (100 * a >= 2 * p /\ 100 * a < 5 * p)
               /\ n = 10 <=> 100 * a >= 5 * p
               /\ (p = 250 /\ a = 5) => n = 15
               /\ 100 * a = 5 * p => n = 10

\* witness of C9: the builder called at ratio exactly 0.02
C9_Witness ==
    /\ pc = "built"
    /\ grid_in.current_price = 250
    /\ grid_in.atr = 5
    /\ Len(grid_out) = 16

\* C10: a step of the monitoring loop stays in the monitoring loop (the
\* process being terminated from outside apart); the step of the exception
\* handler saves the state and returns to the top of the loop whether or not
\* the write succeeds, and a successful write leaves the engine's ladder,
\* last-known price, rebalance timestamp and statistics in the file.
C10_LoopRecovers ==
    [][/\ (pc \in LoopPcs /\ hist'.run = hist.run) => pc' \in LoopPcs
       /\ (pc = "except" /\ hist'.run = hist.run) =>
            /\ pc' = "top"
            /\ hist'.caught
            /\ hist'.save \in {"ok", "failed"}
            /\ UNCHANGED <<current_grid_prices, last_known_price,
                           last_rebalance_time, profit_stats>>
            /\ hist'.save = "ok" =>
                 /\ file'.kind = "json"
                 /\ file'.doc.current_grid_prices = current_grid_prices
                 /\ file'.doc.last_known_price = last_known_price
                 /\ FromIsoFormat(file'.doc.last_rebalance_time) = last_rebalance_time
                 /\ file'.doc.profit_stats = profit_stats]_vars

\* witness of C10: back at the top of the loop after a rebalance raised and
\* the save in the handler failed
C10_Witness ==
    /\ pc = "top"
    /\ hist.caught
    /\ hist.rebalance = "raised"
    /\ hist.save = "failed"

\* C11: the process never exits: every failure that reaches main is followed
\* by a new construction of the engine, also when it is the first
\* construction that failed.
C11_NeverExits == pc # "exited"

\* C12: when place_grid_orders has run its loop, every pair of the ladder
\* has been processed (a call of _place_order at one of its two prices, no
\* earlier than the pair's turn), whichever calls failed, and the returned
\* list holds exactly the orders of the calls that succeeded.
C12_FailureTolerance ==
    (pc = "placed" /\ hist.ticker # NoPrice)
        => /\ \A i \in 1..(Len(current_grid_prices) - 1) :
                 \E k \in DOMAIN hist.attempts :
                    /\ k >= i
                    /\ hist.attempts[k].level \in
                          {current_grid_prices[i], current_grid_prices[i + 1]}
           /\ Len(orders) = Cardinality({k \in DOMAIN hist.attempts :
                                            hist.attempts[k].ok})
           /\ \A j \in DOMAIN orders :
                 \E k \in DOMAIN hist.attempts :
                    /\ hist.attempts[k].ok
                    /\ hist.attempts[k].side = orders[j].side
                    /\ hist.attempts[k].price = orders[j].price
                    /\ hist.attempts[k].quantity = orders[j].quantity

\* witness of C12: the first submission failed, the batch went on through
\* the last pair and returned every other order
C12_Witness ==
    /\ pc = "placed"
    /\ Len(hist.attempts) >= Len(current_grid_prices) - 1
    /\ Len(current_grid_prices) > 2
    /\ ~hist.attempts[1].ok
    /\ hist.attempts[Len(hist.attempts)].ok
    /\ hist.attempts[Len(hist.attempts)].level
          \in {current_grid_prices[Len(current_grid_prices)],
               current_grid_prices[Len(current_grid_prices) - 1]}
    /\ Len(orders) = Len(hist.attempts) - 1

\* the snapshot in the file equals the in-memory ladder, last-known price,
\* rebalance timestamp and ProfitStats
FileEqualsMemory ==
    /\ file.kind = "json"
    /\ file.doc.current_grid_prices = current_grid_prices
    /\ file.doc.last_known_price = last_known_price
    /\ FromIsoFormat(file.doc.last_rebalance_time) = last_rebalance_time
    /\ file.doc.profit_stats = profit_stats

\* C13: after each completed rebalance, each FILLED event the loop has
\* dealt with and each completed placement batch, a snapshot that was
\* written whole equals the in-memory state.
C13_PersistedOnTransition ==
    (/\ file.kind = "json"
     /\ \/ pc = "poll" /\ hist.rebalance = "done"
        \/ pc = "orders" /\ hist.fill \in {"handled", "deferred"}
        \/ pc = "top" /\ hist.attempts # <<>>)
        => FileEqualsMemory

\* C14: no step of the process, a save that fails in the middle included,
\* replaces a complete snapshot by anything but a complete snapshot.
C14_AtomicReplacement == [][file.kind = "json" => file'.kind = "json"]_vars

\* C16: in test mode no handler issues a create_order or cancel_order call,
\* and every order place_grid_orders returns is a local record with status
\* TEST, side BUY or SELL and the configured symbol.
C16_DryRunSafety ==
    test_mode
        => /\ \A i \in DOMAIN calls : ~IsCreate(calls[i]) /\ ~IsCancel(calls[i])
           /\ \A j \in DOMAIN orders :
                 /\ orders[j].status = "TEST"
                 /\ orders[j].side \in {"BUY", "SELL"}
                 /\ orders[j].symbol = "SYM"

\* witness of C16: a rebalance in test mode that returned orders
C16_Witness ==
    /\ test_mode
    /\ pc = "poll"
    /\ hist.rebalance = "done"
    /\ orders # <<>>

\* C19: a step of the loop that deals with a FILLED order adds exactly 1
\* to the total trade count and exactly 1 to one of the buy and sell counts.
C19_EachFillCountedOnce ==
    [][(pc = "orders" /\ profit_stats' # profit_stats)
          => /\ profit_stats'.total_trades = profit_stats.total_trades + 1
             /\ profit_stats'.buy_trades + profit_stats'.sell_trades
                   = profit_stats.buy_trades + profit_stats.sell_trades + 1
             /\ profit_stats'.buy_trades >= profit_stats.buy_trades
             /\ profit_stats'.sell_trades >= profit_stats.sell_trades]_vars

\* the call of update_trade_stats, for a fill of the given side
StatsStep(side) == pc = "stats" /\ pc' # "stats" /\ Head(open_orders).side = side

\* C20 as stated: a BUY fill leaves total profit and the profit list
\* unchanged; a SELL fill, for which no average entry price is ever known,
\* records a profit of zero.
C20_SellRecordsZero ==
    [][/\ StatsStep("BUY")
          => /\ profit_stats'.total_profit = profit_stats.total_profit
             /\ profit_stats'.grid_profits = profit_stats.grid_profits
       /\ (StatsStep("SELL") /\ pc' = "stats_done")
          => /\ profit_stats'.total_profit = profit_stats.total_profit
             /\ profit_stats'.grid_profits = Append(profit_stats.grid_profits, 0)]_vars

\* C20 (amended): a BUY fill leaves total profit and the profit list
\* unchanged; a SELL fill, with the entry price falling back to the fill
\* price, records minus the commission of the fill as its profit (zero when
\* the fill carries no commission), and records nothing when the account
\* query raises.
C20_ProfitRule ==
    [][/\ StatsStep("BUY")
          => /\ profit_stats'.total_profit = profit_stats.total_profit
             /\ profit_stats'.grid_profits = profit_stats.grid_profits
       /\ (StatsStep("SELL") /\ pc' = "stats_done")
          => /\ profit_stats'.total_profit
                   = profit_stats.total_profit - Head(open_orders).commission
             /\ profit_stats'.grid_profits
                   = Append(profit_stats.grid_profits,
                            0 - Head(open_orders).commission)
       /\ (StatsStep("SELL") /\ pc' = "stats_raised")
          => /\ profit_stats'.total_profit = profit_stats.total_profit
             /\ profit_stats'.grid_profits = profit_stats.grid_profits]_vars

\* witness of C20: a SELL fill with a commission has been recorded
C20_Witness ==
    /\ pc = "stats_done"
    /\ Head(open_orders).side = "SELL"
    /\ Head(open_orders).commission > 0
    /\ profit_stats.grid_profits # <<>>
    /\ profit_stats.grid_profits[Len(profit_stats.grid_profits)]
          = 0 - Head(open_orders).commission

\* a flag of config.yaml as main reads it
ConfigFlag(name) ==
    main_in.config.kind = "map" /\ main_in.config[name] \in {"True", "1"}

\* C17: the engine is constructed with the flags of the configuration file
\* when the command line does not give them, and with those of the command
\* line when it does.
C17_FlagSourcing ==
    pc = "monitor"
        => /\ main_in.cli.test_mode = Absent => test_mode = ConfigFlag("test_mode")
           /\ main_in.cli.ignore_orders = Absent
                 => ignore_orders = ConfigFlag("ignore_orders")
           /\ main_in.cli.test_mode # Absent
                 => test_mode = (main_in.cli.test_mode = "True")
           /\ main_in.cli.ignore_orders # Absent
                 => ignore_orders = (main_in.cli.ignore_orders = "1")

\* a required parameter that neither the command line nor config.yaml gives
AbsentFromBoth(param) ==
    main_in.cli[param] = Absent /\ main_in.config[param] = Absent

\* C18: when a required parameter is absent from both the command line and
\* the configuration file, main ends with an error: the retry loop is not
\* entered, no engine is constructed and no gateway call is made.
C18_StartupValidation ==
    (\E param \in {"api_key", "api_secret", "symbol", "investment"} :
        AbsentFromBoth(param))
        => /\ pc \in {"start", "fatal", "fatal_config"}
           /\ ~bot_bound
           /\ hist = NewHist(1)
           /\ calls = <<>>

\* witness of C18: only the investment is missing, and main has raised the
\* ValueError of the validation
C18_Witness ==
    /\ pc = "fatal"
    /\ AbsentFromBoth("investment")
    /\ \A param \in {"api_key", "api_secret", "symbol"} :
          main_in.cli[param] \notin {Absent, ""}

\* the state file the engine was constructed on is missing, unreadable or
\* corrupt (a ladder without its last-known price), or is to be ignored
ColdStartDue ==
    \/ ignore_orders
    \/ ~hist.file0
    \/ hist.ladder0 # NoLadder /\ hist.lkp0 = NoPrice

\* C15: constructed on a missing, unreadable or corrupt state file, or with
\* the ignore flag set, the engine has no ladder and no last-known price,
\* and it reaches the first monitoring iteration only after building a
\* fresh ladder.
C15_ColdStart ==
    /\ (pc = "monitor" /\ ColdStartDue)
          => current_grid_prices = NoLadder /\ last_known_price = NoPrice
    /\ (pc = "top" /\ ColdStartDue) => hist.built

\* the float x is the float of a whole number of steps
IsMultipleOfStep(x, step) ==
    \E m \in 0..(2^MaxExponent * step[2]) : x = Fl(m * step[1], step[2])

\* C21: the value _adjust_quantity returns is at least minQty and a whole
\* number of steps, also for a minQty that is not a multiple of the step.
C21_QuantityAligned ==
    pc = "adjusted"
        => /\ adjust_io.once >= Fl(adjust_io.min_qty[1], adjust_io.min_qty[2])
           /\ IsMultipleOfStep(adjust_io.once, adjust_io.step_size)

\* C22: _adjust_quantity applied to its own result returns that result.
C22_AdjustIdempotent == pc = "readjusted" => adjust_io.twice = adjust_io.once

\* C23: on fewer than window + 1 candles the initial build neither sets a
\* ladder nor submits or returns any order.
C23_InsufficientCandles ==
    (pc # "monitor" /\ Len(df) < Window + 1)
        => /\ current_grid_prices = NoLadder
           /\ ~hist.placed
           /\ calls = <<>>
           /\ orders = <<>>

C25_CounterConsistency ==
    [][hist'.run = hist.run
          => /\ profit_stats'.total_trades
                   = profit_stats'.buy_trades + profit_stats'.sell_trades
             /\ Len(profit_stats'.grid_profits) = profit_stats'.sell_trades
             /\ profit_stats'.total_trades >= profit_stats.total_trades
             /\ profit_stats'.buy_trades >= profit_stats.buy_trades
             /\ profit_stats'.sell_trades >= profit_stats.sell_trades]_vars

NumCreates(cs) == Cardinality({i \in DOMAIN cs : IsCreate(cs[i])})

\* a step in which place_grid_orders found the balance below the investment:
\* the initial build, a rebalance or the handling of a fill went through
\* without place_grid_orders reaching its loop
InsufficientBalanceStep ==
    /\ hist'.ticker = NoPrice
    /\ \/ pc = "monitor" /\ pc' = "top" /\ ~hist.built /\ hist'.built
       \/ pc = "top" /\ pc' = "poll" /\ hist'.rebalance = "done"
       \/ pc = "orders" /\ pc' = "orders" /\ hist'.fill = "handled"

\* C26: when the balance is below the investment, place_grid_orders returns
\* an empty list, submits no order, leaves current_grid_prices and
\* last_known_price as they were and does not write the state file; after a
\* cold start the engine then enters monitoring with no ladder and no order.
C26_InsufficientBalanceFrame ==
    [][InsufficientBalanceStep
          => /\ orders' = <<>>
             /\ NumCreates(calls') = (IF pc = "orders" THEN NumCreates(calls) ELSE 0)
             /\ current_grid_prices' = current_grid_prices
             /\ last_known_price' = last_known_price
             /\ file' = file
             /\ pc = "monitor"
                   => current_grid_prices' = NoLadder /\ ~hist'.placed]_vars

\* witness of C26: a rebalance on insufficient balance that left the ladder
\* and the file of the engine in place
C26_Witness ==
    /\ pc = "poll"
    /\ hist.rebalance = "done"
    /\ hist.ticker = NoPrice
    /\ current_grid_prices # NoLadder
    /\ file.kind = "json"
    /\ orders = <<>>

\* less than 5 minutes remain until last_rebalance_time + rebalance_interval
LessThanFiveMinutesLeft ==
    now > last_rebalance_time + RebalanceInterval - NearRebalance

\* C27: a FILLED order handled while less than 5 minutes remain until the
\* next rebalance updates the statistics, submits no order and leaves the
\* ladder as it was; in that window the loop gets new orders only from the
\* rebalance at the top of an iteration.
C27_DeferredNearRebalance ==
    [][(LessThanFiveMinutesLeft /\ pc \in LoopPcs /\ hist'.run = hist.run)
          => /\ (pc = "orders" /\ pc' = "orders" /\ profit_stats' # profit_stats)
                   => /\ profit_stats'.total_trades > profit_stats.total_trades
                      /\ calls' = calls
                      /\ orders' = orders
                      /\ current_grid_prices' = current_grid_prices
             /\ (NumCreates(calls') > NumCreates(calls) \/ Len(orders') > Len(orders))
                   => pc = "top"]_vars

\* witness of C27: a fill deferred in the last 5 minutes before a rebalance,
\* counted in the statistics, with the ladder in place
C27_Witness ==
    /\ pc = "orders"
    /\ hist.fill = "deferred"
    /\ LessThanFiveMinutesLeft
    /\ ~RebalanceDue
    /\ profit_stats.total_trades > 0
    /\ current_grid_prices # NoLadder

====
